---- MODULE Spec2Model ----
(***************************************************************************)
(* A model of the pull-request review agent: the unified-diff parser       *)
(* (github_handler.py), the review orchestrator (llm_analyzer.py), the     *)
(* comment publisher with its diff-position walk (github_commenter.py)     *)
(* and the webhook handler (app.py).                                       *)
(*                                                                         *)
(* Text is a sequence of atoms.  The atom "\n" is the line break; every    *)
(* other atom stands for the whole text of one line and carries what the   *)
(* code reads from that line: the prefix startswith() tests (field k),     *)
(* the number of space-separated tokens split(' ') yields (field n), the   *)
(* value of parts[3][2:] of a file header (field s) and the start values   *)
(* int() extracts from the tokens of a hunk header (fields o and w).       *)
(* A line is the sequence of atoms between two line breaks, so the empty   *)
(* line is << >>.                                                          *)
(***************************************************************************)
EXTENDS Integers, Sequences, FiniteSets, TLC

VARIABLES
  pc,               \* position of the running handler
  diff_content,     \* response.text of the diff request (get_pr_diffs)
  diffs,            \* the dict _parse_diff_content returned, in insertion order
  llm_calls,        \* the chat requests sent to the LLM backend, in order
  analysis_results, \* the dict analyze_diffs returned, in insertion order
  backend,          \* what the LLM backend did with each file's request
  raised,           \* the exception that escaped the running handler, or None
  patch,            \* file.patch handed to the position walk
  line_number,      \* the target line of the position walk
  position,         \* what _get_position_in_diff returned
  analysis_text,    \* the raw text of an LLM response
  valid_comments,   \* what _parse_analysis_response returned
  payload,          \* request.json of the webhook delivery
  response,         \* the webhook's response: status and HTTP code
  pending,          \* comments process_pull_request has still to post
  last_platform,    \* what the platform did during the latest post_comment
  attempts,         \* one record per post_comment call, in order
  review_comments,  \* inline review comments the platform holds
  issue_comments,   \* issue-level comments the platform holds
  extract,          \* the locals of the loop of _extract_line_changes
  walk,             \* the locals of the loop of _get_position_in_diff
  consumed          \* how many lines of the patch the two loops have consumed

vars == <<pc, diff_content, diffs, llm_calls, analysis_results, backend, raised,
          patch, line_number, position, analysis_text, valid_comments, payload,
          response, pending, last_platform, attempts, review_comments, issue_comments,
                 extract, walk, consumed>>

---------------------------------------------------------------------------
(* Bounds of the model.                                                    *)

\* longest freely composed diff text, in lines
MaxLines == 4
\* most files in a diff composed of whole file sections
MaxFiles == 2
\* longest patch text handed to the position walk, in lines
MaxPatchLines == 4
\* largest target line number asked of the position walk
MaxTarget == 3
\* longest freely composed LLM response, in tokens
MaxResp == 5

---------------------------------------------------------------------------
(* Python values.                                                          *)

\* None, as the value of current_file before the first file header
None == "<None>"

\* truthiness of a str-or-None value: None and '' are falsy
Truthy(v) == v # None /\ v # ""

---------------------------------------------------------------------------
(* Text: atoms, lines, split and join.                                     *)

Atom(k) == [k |-> k, n |-> 0, s |-> "", o |-> 0, w |-> 0]

\* the line break
NL == Atom("\n")

\* a line "diff --git ..." with n space-separated tokens whose parts[3][2:] is s
FileHeader(n, s) == [k |-> "diff --git", n |-> n, s |-> s, o |-> 0, w |-> 0]

\* a line "@@ -o[,c] +w[,c] @@ ..." with n space-separated tokens
HunkHeader(n, o, w) == [k |-> "@@", n |-> n, s |-> "", o |-> o, w |-> w]

\* str.startswith, for the prefixes the code tests
StartsWith(line, prefix) == line # <<>> /\ line[1].k = prefix

\* line[1:]
DropFirst(line) == IF line = <<>> THEN <<>> ELSE Tail(line)

\* index of the first line break of text, 0 when it has none
RECURSIVE FindNL(_, _)
FindNL(text, i) ==
  IF i > Len(text) THEN 0
  ELSE IF text[i] = NL THEN i
  ELSE FindNL(text, i + 1)

\* text.split('\n'): never empty, '' splits to ['']
RECURSIVE Split(_)
Split(text) ==
  LET i == FindNL(text, 1) IN
  IF i = 0 THEN <<text>>
  ELSE <<SubSeq(text, 1, i - 1)>> \o Split(SubSeq(text, i + 1, Len(text)))

\* '\n'.join(lines)
RECURSIVE Join(_)
Join(lines) ==
  IF lines = <<>> THEN <<>>
  ELSE IF Len(lines) = 1 THEN lines[1]
  ELSE lines[1] \o <<NL>> \o Join(Tail(lines))

---------------------------------------------------------------------------
(* github_handler.py: the unified-diff parser.                             *)

\* a dict kept as the sequence of its items in insertion order:
\* d[key] = value replaces the value of a key already present, in place
DictSet(d, key, value) ==
  IF \E i \in 1..Len(d) : d[i].key = key
  THEN [i \in 1..Len(d) |-> IF d[i].key = key THEN [key |-> key, value |-> value]
                             ELSE d[i]]
  ELSE Append(d, [key |-> key, value |-> value])

DictKeys(d) == {d[i].key : i \in 1..Len(d)}

\* d[key], for a key that is present
DictGet(d, key) == d[CHOOSE i \in 1..Len(d) : d[i].key = key].value

\* a hunk-header branch that takes only the new-file counter from the header
HunkStartNewOnly(st, line) ==
  IF line[1].n >= 3
  THEN [st EXCEPT !.in_hunk = TRUE, !.new_line_num = line[1].w]
  ELSE [st EXCEPT !.in_hunk = TRUE]

\* the hunk-header branch of _extract_line_changes: both counters are taken
\* from the header when it has at least 3 tokens, and kept otherwise
HunkStart(st, line) ==
  IF line[1].n >= 3
  THEN [st EXCEPT !.in_hunk = TRUE,
                  !.old_line_num = line[1].o,
                  !.new_line_num = line[1].w]
  ELSE [st EXCEPT !.in_hunk = TRUE]

\* the in-hunk branch of _extract_line_changes
HunkLine(st, line) ==
  IF StartsWith(line, "+")
  THEN [st EXCEPT !.changes = Append(@, [type |-> "addition",
                                         line_num |-> st.new_line_num,
                                         content |-> DropFirst(line)]),
                  !.new_line_num = @ + 1]
  ELSE IF StartsWith(line, "-")
  THEN [st EXCEPT !.changes = Append(@, [type |-> "deletion",
                                         line_num |-> st.old_line_num,
                                         content |-> DropFirst(line)]),
                  !.old_line_num = @ + 1]
  ELSE IF ~StartsWith(line, "\\")
  THEN [st EXCEPT !.changes = Append(@, [type |-> "context",
                                         old_line_num |-> st.old_line_num,
                                         new_line_num |-> st.new_line_num,
                                         content |-> DropFirst(line)]),
                  !.old_line_num = @ + 1,
                  !.new_line_num = @ + 1]
  ELSE st

\* one iteration of the loop of _extract_line_changes
ExtractStep(st, line) ==
  IF StartsWith(line, "@@") THEN HunkStart(st, line)
  ELSE IF st.in_hunk THEN HunkLine(st, line)
  ELSE st

RECURSIVE ExtractLoop(_, _)
ExtractLoop(st, diff_lines) ==
  IF diff_lines = <<>> THEN st
  ELSE ExtractLoop(ExtractStep(st, Head(diff_lines)), Tail(diff_lines))

\* the locals of _extract_line_changes before its loop
ExtractStart ==
  [changes |-> <<>>, in_hunk |-> FALSE, old_line_num |-> 0, new_line_num |-> 0]

\* _extract_line_changes(diff_lines)
ExtractLineChanges(diff_lines) == ExtractLoop(ExtractStart, diff_lines).changes

\* diffs[current_file] = {...}, done only for a truthy current_file with lines
SaveFile(diffs_, current_file, current_diff_lines) ==
  IF Truthy(current_file) /\ current_diff_lines # <<>>
  THEN DictSet(diffs_, current_file,
               [content |-> Join(current_diff_lines),
                changes |-> ExtractLineChanges(current_diff_lines)])
  ELSE diffs_

\* the file-header branch of _parse_diff_content
FileStart(st, line) ==
  LET saved == SaveFile(st.diffs, st.current_file, st.current_diff_lines) IN
  IF line[1].n >= 4
  THEN [diffs |-> saved, current_file |-> line[1].s, current_diff_lines |-> <<line>>]
  ELSE [st EXCEPT !.diffs = saved]

\* one iteration of the loop of _parse_diff_content
ParseStep(st, line) ==
  IF StartsWith(line, "diff --git") THEN FileStart(st, line)
  ELSE IF Truthy(st.current_file)
  THEN [st EXCEPT !.current_diff_lines = Append(@, line)]
  ELSE st

RECURSIVE ParseLoop(_, _)
ParseLoop(st, lines) ==
  IF lines = <<>> THEN st
  ELSE ParseLoop(ParseStep(st, Head(lines)), Tail(lines))

\* _parse_diff_content(diff_content)
ParseDiffContent(text) ==
  LET st == ParseLoop([diffs |-> <<>>, current_file |-> None,
                       current_diff_lines |-> <<>>], Split(text))
  IN SaveFile(st.diffs, st.current_file, st.current_diff_lines)

---------------------------------------------------------------------------
(* llm_analyzer.py: the review orchestrator.                               *)
(*                                                                         *)
(* An LLM response is a sequence of tokens: "[", "]" and "," are the       *)
(* characters of that name; "obj" is the text of one JSON object, with     *)
(* the set of its keys and the values of 'line' and 'content'; "num" is    *)
(* the text of a JSON scalar; "text" is prose that is no JSON.             *)

Tok(t) == [t |-> t, keys |-> {}, line |-> 0, content |-> ""]

\* the object {"line": line, "content": content} restricted to keys
Obj(keys, line, content) ==
  [t |-> "obj", keys |-> keys, line |-> line, content |-> content]

\* str.find: 0-based index of the first token t, -1 when there is none
RECURSIVE FindFrom(_, _, _)
FindFrom(text, t, i) ==
  IF i > Len(text) THEN -1
  ELSE IF text[i].t = t THEN i - 1
  ELSE FindFrom(text, t, i + 1)

Find(text, t) == FindFrom(text, t, 1)

\* str.rfind: 0-based index of the last token t, -1 when there is none
RECURSIVE RFindFrom(_, _, _)
RFindFrom(text, t, i) ==
  IF i < 1 THEN -1
  ELSE IF text[i].t = t THEN i - 1
  ELSE RFindFrom(text, t, i - 1)

RFind(text, t) == RFindFrom(text, t, Len(text))

NoParse == [ok |-> FALSE, next |-> 0, items |-> <<>>]

\* the JSON decoder at token i: a value is a scalar, an object or an array;
\* ParseItems reads "value (, value)* ]" and returns the values read.
\* A nested array is returned as one value that is no dict.
RECURSIVE ParseValue(_, _), ParseItems(_, _)
ParseValue(s, i) ==
  IF i > Len(s) THEN NoParse
  ELSE IF s[i].t \in {"obj", "num"}
  THEN [ok |-> TRUE, next |-> i + 1, items |-> <<s[i]>>]
  ELSE IF s[i].t = "["
  THEN IF i + 1 <= Len(s) /\ s[i + 1].t = "]"
       THEN [ok |-> TRUE, next |-> i + 2, items |-> <<Tok("array")>>]
       ELSE LET r == ParseItems(s, i + 1) IN
            IF r.ok THEN [ok |-> TRUE, next |-> r.next, items |-> <<Tok("array")>>]
            ELSE NoParse
  ELSE NoParse

ParseItems(s, i) ==
  LET v == ParseValue(s, i) IN
  IF ~v.ok \/ v.next > Len(s) THEN NoParse
  ELSE IF s[v.next].t = "]"
  THEN [ok |-> TRUE, next |-> v.next + 1, items |-> v.items]
  ELSE IF s[v.next].t = ","
  THEN LET r == ParseItems(s, v.next + 1) IN
       IF r.ok THEN [ok |-> TRUE, next |-> r.next, items |-> v.items \o r.items]
       ELSE NoParse
  ELSE NoParse

\* json.loads of a text that starts with "[": the list decoded, or
\* JSONDecodeError when the text is not exactly one JSON array
JsonLoads(json_str) ==
  LET r == IF Len(json_str) >= 2 /\ json_str[2].t = "]"
           THEN [ok |-> TRUE, next |-> 3, items |-> <<>>]
           ELSE ParseItems(json_str, 2)
  IN IF r.ok /\ r.next = Len(json_str) + 1
     THEN [exc |-> None, val |-> r.items]
     ELSE [exc |-> "JSONDecodeError", val |-> <<>>]

HasLineOnly(comment) == comment.t = "obj" /\ "line" \in comment.keys

\* isinstance(comment, dict) and 'line' in comment and 'content' in comment
IsValidComment(comment) ==
  comment.t = "obj" /\ "line" \in comment.keys /\ "content" \in comment.keys

\* the condition under which a span is extracted and decoded
HasSpan(json_start, json_end) == json_start >= 0 /\ json_end > json_start

\* _parse_analysis_response(analysis_text, additions)
ParseAnalysisResponse(text) ==
  LET json_start == Find(text, "[")
      json_end   == RFind(text, "]") + 1
  IN IF HasSpan(json_start, json_end)
     THEN LET comments == JsonLoads(SubSeq(text, json_start + 1, json_end)) IN
          IF comments.exc # None THEN <<>>
          ELSE SelectSeq(comments.val, IsValidComment)
     ELSE <<>>

IsAddition(change) == change.type = "addition"

\* _call_openai and its siblings: the backend call, which raises or answers
\* with a text, and the parse of that text (outcome: what the backend does)
CallBackend(outcome) ==
  IF outcome.exc # None THEN [exc |-> outcome.exc, ret |-> <<>>]
  ELSE [exc |-> None, ret |-> ParseAnalysisResponse(outcome.text)]

BackendUncaught(outcome) == CallBackend(outcome)

\* the try/except Exception of _analyze_file_diff around the backend call
TryCallBackend(outcome) ==
  LET r == CallBackend(outcome) IN
  IF r.exc # None THEN [exc |-> None, ret |-> <<>>] ELSE r

\* the early return of _analyze_file_diff: no addition, no request
NothingToReview(additions) == additions = <<>>

\* _analyze_file_diff(file_path, diff_info): the comments returned, the
\* exception raised, and the requests sent (prompt: path and full diff)
AnalyzeFileDiff(file_path, diff_info, outcome) ==
  LET additions == SelectSeq(diff_info.changes, IsAddition) IN
  IF NothingToReview(additions) THEN [exc |-> None, ret |-> <<>>, calls |-> <<>>]
  ELSE LET r == TryCallBackend(outcome) IN
       [exc |-> r.exc, ret |-> r.ret,
        calls |-> <<[file_path |-> file_path, full_diff |-> diff_info.content]>>]

\* `if not diff_info.get('changes'): continue` of analyze_diffs
SkipFile(diff_info) == diff_info.changes = <<>>

\* the loop of analyze_diffs over diffs.items(), from item i on
\* (llm: what the backend does with each file's request)
RECURSIVE AnalyzeLoop(_, _, _, _)
AnalyzeLoop(st, diffs_, llm, i) ==
  IF i > Len(diffs_) \/ st.exc # None THEN st
  ELSE IF SkipFile(diffs_[i].value) THEN AnalyzeLoop(st, diffs_, llm, i + 1)
  ELSE LET r == AnalyzeFileDiff(diffs_[i].key, diffs_[i].value, llm[diffs_[i].key])
       IN AnalyzeLoop([exc     |-> r.exc,
                       results |-> IF r.exc = None /\ r.ret # <<>>
                                   THEN DictSet(st.results, diffs_[i].key, r.ret)
                                   ELSE st.results,
                       calls   |-> st.calls \o r.calls],
                      diffs_, llm, i + 1)

\* analyze_diffs(diffs)
AnalyzeDiffs(diffs_, llm) ==
  AnalyzeLoop([exc |-> None, results |-> <<>>, calls |-> <<>>], diffs_, llm, 1)

---------------------------------------------------------------------------
(* github_commenter.py: the comment publisher and its position walk.       *)

\* the hunk-header branch of the walk: current_line is taken from the
\* header when it has at least 3 tokens, and kept otherwise
WalkHunkStart(st, patch_line) ==
  IF patch_line[1].n >= 3
  THEN [st EXCEPT !.current_line = patch_line[1].w]
  ELSE st

\* a walk that counts every line it tracks, the no-newline marker included
WalkCountsAll(patch_line) == TRUE

\* `if not patch_line.startswith('\\')`: the no-newline marker does not count
WalkCounts(patch_line) == ~StartsWith(patch_line, "\\")

\* the walk compares and counts on every line that does not start with '-'
WalkTracks(patch_line) ==
  StartsWith(patch_line, "+") \/ ~StartsWith(patch_line, "-")

\* one iteration of the loop of _get_position_in_diff (st.ret: the value
\* returned from inside the loop, None while the loop runs)
WalkStep(st, patch_line, target) ==
  LET s1 == [st EXCEPT !.position = @ + 1] IN
  IF StartsWith(patch_line, "@@") THEN WalkHunkStart(s1, patch_line)
  ELSE IF WalkTracks(patch_line)
  THEN IF s1.current_line = target THEN [s1 EXCEPT !.returned = TRUE]
       ELSE IF WalkCounts(patch_line)
       THEN [s1 EXCEPT !.current_line = @ + 1]
       ELSE s1
  ELSE s1

RECURSIVE WalkLoop(_, _, _)
WalkLoop(st, patch_lines, target) ==
  IF patch_lines = <<>> \/ st.returned THEN st
  ELSE WalkLoop(WalkStep(st, Head(patch_lines), target), Tail(patch_lines), target)

\* the body of _get_position_in_diff for the file found: the position
\* returned inside the loop, or the position counter after the loop
PositionOrZero(patch_text, target) ==
  LET st == WalkLoop([position |-> 0, current_line |-> 0, returned |-> FALSE],
                     Split(patch_text), target)
  IN IF st.returned THEN st.position ELSE 0

\* the locals of the walk before its loop (returned: the loop was left by
\* `return position`)
WalkStart == [position |-> 0, current_line |-> 0, returned |-> FALSE]

PositionInPatch(patch_text, target) ==
  WalkLoop(WalkStart, Split(patch_text), target).position

\* what _get_position_in_diff does when no file of the pull request matches
FileNotFound == [exc |-> "Exception", ret |-> 0]

\* _get_position_in_diff(pull_request, file_path, line_number), over
\* files = pull_request.get_files(), from file i on
RECURSIVE GetPositionFrom(_, _, _, _)
GetPositionFrom(files, file_path, target, i) ==
  IF i > Len(files) THEN FileNotFound
  ELSE IF files[i].filename = file_path
  THEN [exc |-> None, ret |-> PositionInPatch(files[i].patch, target)]
  ELSE GetPositionFrom(files, file_path, target, i + 1)

GetPositionInDiff(files, file_path, target) ==
  GetPositionFrom(files, file_path, target, 1)

\* f"**{file_path}:{line_number}**\n\n{comment_text}"
FormattedComment(file_path, line, comment_text) ==
  <<"**", file_path, ":", ToString(line), "**", "\n", "\n", comment_text>>

\* _post_fallback_comment: one issue comment, or the platform's exception
PostFallbackComment(platform, file_path, line, comment_text) ==
  IF platform.fallback_ok
  THEN [exc |-> None,
        issue |-> <<FormattedComment(file_path, line, comment_text)>>]
  ELSE [exc |-> "GithubException", issue |-> <<>>]

\* the handler `except GithubException` of post_comment: the fallback, whose
\* own failure of any kind gives False
OnGithubException(platform, file_path, line, comment_text) ==
  LET f == PostFallbackComment(platform, file_path, line, comment_text) IN
  [exc |-> None, ret |-> (f.exc = None), review |-> <<>>, issue |-> f.issue]

\* which exceptions the `except` clause of post_comment handles
Handled(exc) == exc = "GithubException"

\* the try block of post_comment: the exception it ends with (None: the
\* review comment was created) and the review comment created
TryReviewComment(platform, file_path, line, comment_text) ==
  IF ~platform.pull_ok THEN [exc |-> "GithubException", review |-> <<>>]
  ELSE LET pos == GetPositionInDiff(platform.files, file_path, line) IN
       IF pos.exc # None THEN [exc |-> pos.exc, review |-> <<>>]
       ELSE IF ~platform.inline_ok THEN [exc |-> "GithubException", review |-> <<>>]
       ELSE [exc |-> None,
             review |-> <<[body |-> comment_text, path |-> file_path,
                           position |-> pos.ret]>>]

\* post_comment(repo_name, pr_number, file_path, line_number, comment_text)
\* platform: whether get_repo/get_pull/get_commits succeed, the files of the
\* pull request, and whether the platform accepts each kind of comment
PostComment(platform, file_path, line, comment_text) ==
  LET t == TryReviewComment(platform, file_path, line, comment_text) IN
  IF t.exc = None
  THEN [exc |-> None, ret |-> TRUE, review |-> t.review, issue |-> <<>>]
  ELSE IF Handled(t.exc)
  THEN OnGithubException(platform, file_path, line, comment_text)
  ELSE [exc |-> t.exc, ret |-> FALSE, review |-> <<>>, issue |-> <<>>]

---------------------------------------------------------------------------
(* Inputs.                                                                 *)

\* paths of the files of a pull request
FilePaths == <<"f.py", "g.md", "h.js">>

\* "diff --git a/f.py b/f.py": 4 tokens, parts[3][2:] = "f.py"
GitHeader(path) == FileHeader(4, path)
\* "diff --git": a header line with fewer than 4 tokens
ShortHeader == FileHeader(2, "")
\* "diff --git a/x y b/x y", the header git writes for the file "x y":
\* 6 tokens, parts[3] = "y", parts[3][2:] = ""
SpacedHeader == FileHeader(6, "")
\* "@@ -3,2 +2,3 @@" and "@@ -1,2 +1,3 @@": 4 tokens
Hunk32 == HunkHeader(4, 3, 2)
Hunk11 == HunkHeader(4, 1, 1)
\* "@@": a hunk header with fewer than 3 tokens
ShortHunk == HunkHeader(1, 0, 0)

\* the lines a freely composed diff text is made of
DiffLines ==
  { <<GitHeader("f.py")>>, <<GitHeader("g.md")>>, <<ShortHeader>>, <<SpacedHeader>>,
    <<Hunk32>>, <<ShortHunk>>,
    <<Atom("+")>>, <<Atom("-")>>, <<Atom(" ")>>, <<Atom("\\")>>, <<>> }

SeqsUpTo(S, n) == UNION { [1..k -> S] : k \in 1..n }

\* every text of 1 to MaxLines lines
FreeDiffs == { Join(ls) : ls \in SeqsUpTo(DiffLines, MaxLines) }

\* what follows the header line in the diff of one file: a rename, a
\* deletion, an addition, and an edit of a last line that has no newline
SectionBodies ==
  { <<Atom(" "), NL>>,
    <<Hunk32, NL, Atom("-"), NL>>,
    <<Hunk32, NL, Atom("+"), NL>>,
    <<Hunk32, NL, Atom(" "), NL, Atom("-"), NL, Atom("\\"), NL,
      Atom("+"), NL, Atom("\\"), NL>> }

\* sequences of k distinct paths
PathOrders(k) ==
  { ps \in [1..k -> {FilePaths[i] : i \in 1..Len(FilePaths)}] :
      \A i, j \in 1..k : i # j => ps[i] # ps[j] }

RECURSIVE Sections(_, _)
Sections(ps, bodies) ==
  IF ps = <<>> THEN <<>>
  ELSE <<GitHeader(Head(ps)), NL>> \o Head(bodies) \o Sections(Tail(ps), Tail(bodies))

\* the diff of a pull request of 1 to MaxFiles files, as git writes it:
\* one section per file, every line ended by a line break
FileDiffs ==
  UNION { { Sections(ps, bs) : ps \in PathOrders(k), bs \in [1..k -> SectionBodies] } :
          k \in 1..MaxFiles }

\* 'diff --git a/f.py b/f.py\n@@ -1,2 +1,3 @@\n context\n+added line\n-removed line\n'
ExampleDiff ==
  <<GitHeader("f.py"), NL, Hunk11, NL, Atom(" "), NL, Atom("+"), NL, Atom("-"), NL>>

\* the tokens a freely composed LLM response is made of
RespTokens ==
  { Tok("["), Tok("]"), Tok(","), Tok("text"), Tok("num"),
    Obj({"line", "content"}, 2, "Consider renaming."),
    Obj({"line"}, 1, ""),
    Obj({"content"}, 0, "Looks fine.") }

FreeResponses == {<<>>} \cup SeqsUpTo(RespTokens, MaxResp)

\* 'Here you go:\n[{"line": 2, "content": "Consider renaming."}]\nThanks'
ExampleResponse ==
  <<Tok("text"), Tok("["), Obj({"line", "content"}, 2, "Consider renaming."),
    Tok("]"), Tok("text")>>

\* '[{"line": 1, "content": "Unused."}, {"line": 3, "content": "Typo."}]'
TwoComments ==
  <<Tok("["), Obj({"line", "content"}, 1, "Unused."), Tok(","),
    Obj({"line", "content"}, 3, "Typo."), Tok("]")>>

\* what the LLM backend does with a request: it raises, or answers
LLMOutcomes ==
  { [exc |-> "APIError", text |-> <<>>],
    [exc |-> None, text |-> ExampleResponse],
    [exc |-> None, text |-> TwoComments],
    [exc |-> None, text |-> <<Tok("text")>>] }

\* the lines a patch text is made of
PatchLines ==
  { <<Hunk32>>, <<Hunk11>>, <<ShortHunk>>, <<GitHeader("f.py")>>,
    <<Atom("+")>>, <<Atom("-")>>, <<Atom(" ")>>, <<Atom("\\")>>, <<>> }

\* every patch text of 1 to MaxPatchLines lines
FreePatches == { Join(ls) : ls \in SeqsUpTo(PatchLines, MaxPatchLines) }

\* the diffs the webhook deliveries of the model fetch
DeliveredDiffs ==
  { ExampleDiff,
    <<GitHeader("g.md"), NL, Atom(" "), NL>>,
    <<GitHeader("f.py"), NL, Hunk32, NL, Atom("+"), NL,
      GitHeader("g.md"), NL, Hunk11, NL, Atom("-"), NL, Atom("+"), NL>> }

\* request.json: whether it has the key 'pull_request', its 'action' (None:
\* no such key), and whether ['pull_request']['number'] and
\* ['repository']['full_name'] are there
Payloads ==
  [pull_request : BOOLEAN,
   action       : {"opened", "synchronize", "closed", None},
   number       : BOOLEAN,
   full_name    : BOOLEAN]

\* what the platform does during one post_comment: get_repo, get_pull and
\* get_commits succeed or raise GithubException, get_files lists the file or
\* not, and each kind of comment is accepted or rejected
Platforms ==
  [pull_ok : BOOLEAN, listed : BOOLEAN, inline_ok : BOOLEAN, fallback_ok : BOOLEAN]

\* index of the first hunk header among lines, 0 when there is none
RECURSIVE FirstHunk(_, _)
FirstHunk(lines, i) ==
  IF i > Len(lines) THEN 0
  ELSE IF StartsWith(lines[i], "@@") THEN i
  ELSE FirstHunk(lines, i + 1)

\* file.patch for a file of the pull request: the diff of the file from its
\* first hunk header on, without the line break that ends it
PatchOf(content) ==
  LET lines == Split(content)
      h     == FirstHunk(lines, 1)
      last  == IF lines[Len(lines)] = <<>> THEN Len(lines) - 1 ELSE Len(lines)
  IN IF h = 0 THEN <<>> ELSE Join(SubSeq(lines, h, last))

\* pull_request.get_files(): the files of the diff, the commented file
\* among them or not
FilesOf(diffs_, file_path, listed) ==
  LET all == [i \in 1..Len(diffs_) |->
                [filename |-> diffs_[i].key, patch |-> PatchOf(diffs_[i].value.content)]]
      Other(f) == f.filename # file_path
  IN IF listed THEN all ELSE SelectSeq(all, Other)

---------------------------------------------------------------------------
(* app.py: the webhook handler and process_pull_request.                   *)

NoPayload == [pull_request |-> FALSE, action |-> None,
              number |-> FALSE, full_name |-> FALSE]
NoResponse == [status |-> "", code |-> 0]
NoPlatform == [pull_ok |-> FALSE, listed |-> FALSE,
               inline_ok |-> FALSE, fallback_ok |-> FALSE]

\* jsonify({'status': 'success', ...}), jsonify({'status': 'ignored', ...})
\* and jsonify({'status': 'error', ...}), 500
Success == [status |-> "success", code |-> 200]
Ignored == [status |-> "ignored", code |-> 200]
Error == [status |-> "error", code |-> 500]

RelevantOrClosed(p) == p.pull_request /\ p.action \in {"opened", "synchronize", "closed"}

\* the condition under which webhook() processes the delivery
Relevant(p) == p.pull_request /\ p.action \in {"opened", "synchronize"}

\* the response of webhook() once its try block ended with exc
ResponseFor(exc) == IF exc = None THEN Success ELSE Error

\* the comments of analysis_results in the order the loops of
\* process_pull_request post them
RECURSIVE CommentsOf(_)
CommentsOf(results) ==
  IF results = <<>> THEN <<>>
  ELSE [i \in 1..Len(Head(results).value) |->
          [file_path |-> Head(results).key, comment |-> Head(results).value[i]]]
       \o CommentsOf(Tail(results))

\* the state before any handler ran, given the handler's position and input
Start(at, text, patch_text, target, llm_text) ==
  /\ pc = at
  /\ diff_content = text /\ diffs = <<>> /\ llm_calls = <<>>
  /\ analysis_results = <<>> /\ backend = <<>> /\ raised = None
  /\ patch = patch_text /\ line_number = target
  /\ position = [exc |-> None, ret |-> 0]
  /\ analysis_text = llm_text /\ valid_comments = <<>>
  /\ payload = NoPayload /\ response = NoResponse /\ pending = <<>>
  /\ last_platform = NoPlatform /\ attempts = <<>>
  /\ review_comments = <<>> /\ issue_comments = <<>>
  /\ extract = ExtractStart /\ walk = WalkStart /\ consumed = 0

Init == Start("idle", <<>>, <<>>, 0, <<>>)

\* webhook(): a delivery arrives; an irrelevant one is answered at once, and
\* so is one whose number or repository name is missing (KeyError)
Webhook ==
  /\ pc = "idle"
  /\ \E p \in Payloads :
       /\ payload' = p
       /\ IF ~Relevant(p)
          THEN pc' = "done" /\ response' = Ignored /\ raised' = raised
          ELSE IF ~(p.number /\ p.full_name)
          THEN pc' = "done" /\ response' = ResponseFor("KeyError") /\ raised' = "KeyError"
          ELSE pc' = "process" /\ response' = response /\ raised' = raised
  /\ UNCHANGED <<diff_content, diffs, llm_calls, analysis_results, backend, patch,
                 line_number, position, analysis_text, valid_comments, pending,
                 last_platform, attempts, review_comments, issue_comments,
                 extract, walk, consumed>>

\* process_pull_request ends with exception exc, which webhook() answers
Abort(exc) ==
  /\ raised' = exc
  /\ response' = ResponseFor(exc)
  /\ pc' = "done"

\* process_pull_request: no API key is configured (ValueError)
ConfigError ==
  /\ pc = "process"
  /\ Abort("ValueError")
  /\ UNCHANGED <<diff_content, diffs, llm_calls, analysis_results, backend, patch,
                 line_number, position, analysis_text, valid_comments, payload,
                 pending, last_platform, attempts, review_comments, issue_comments,
                 extract, walk, consumed>>

\* get_pr_diffs: the platform or the diff request fails (Exception)
FetchError ==
  /\ pc = "process"
  /\ Abort("Exception")
  /\ UNCHANGED <<diff_content, diffs, llm_calls, analysis_results, backend, patch,
                 line_number, position, analysis_text, valid_comments, payload,
                 pending, last_platform, attempts, review_comments, issue_comments,
                 extract, walk, consumed>>

\* get_pr_diffs: the diff text is fetched and parsed
FetchDiffs ==
  /\ pc = "process"
  /\ \E text \in DeliveredDiffs :
       /\ diff_content' = text
       /\ diffs' = ParseDiffContent(text)
  /\ pc' = "analyze"
  /\ UNCHANGED <<llm_calls, analysis_results, backend, raised, patch,
                 line_number, position, analysis_text, valid_comments, payload,
                 response, pending, last_platform, attempts, review_comments,
                 issue_comments,
                 extract, walk, consumed>>

\* what process_pull_request does with the result r of analyze_diffs
Analyzed(r) ==
  /\ llm_calls' = r.calls
  /\ analysis_results' = r.results
  /\ IF r.exc # None
     THEN Abort(r.exc) /\ pending' = pending
     ELSE /\ pending' = CommentsOf(r.results)
          /\ pc' = "post"
          /\ UNCHANGED <<raised, response>>

\* llm_analyzer.analyze_diffs(diffs), the backend answering as it chooses
Analyze ==
  /\ pc = "analyze"
  /\ \E llm \in [DictKeys(diffs) -> LLMOutcomes] :
       backend' = llm /\ Analyzed(AnalyzeDiffs(diffs, llm))
  /\ UNCHANGED <<diff_content, diffs, patch, line_number, position, analysis_text,
                 valid_comments, payload, last_platform, attempts, review_comments,
                 issue_comments,
                 extract, walk, consumed>>

\* what the loops of process_pull_request do with the outcome r of
\* post_comment for comment c: its return value is dropped, an exception
\* it raises ends process_pull_request
Posted(c, r) ==
  /\ attempts' = Append(attempts, [file_path |-> c.file_path,
                                   line |-> c.comment.line,
                                   content |-> c.comment.content,
                                   exc |-> r.exc, ret |-> r.ret,
                                   review |-> r.review, issue |-> r.issue])
  /\ review_comments' = review_comments \o r.review
  /\ issue_comments' = issue_comments \o r.issue
  /\ IF r.exc # None
     THEN Abort(r.exc) /\ pending' = pending
     ELSE pending' = Tail(pending) /\ pc' = "post" /\ UNCHANGED <<raised, response>>

\* post_comment for comment c on a platform that behaves as pf
PostOn(pf, c) ==
  PostComment([pull_ok |-> pf.pull_ok,
               files |-> FilesOf(diffs, c.file_path, pf.listed),
               inline_ok |-> pf.inline_ok,
               fallback_ok |-> pf.fallback_ok],
              c.file_path, c.comment.line, c.comment.content)

\* one iteration of the loops of process_pull_request: the next comment
Post ==
  /\ pc = "post" /\ pending # <<>>
  /\ \E pf \in Platforms :
       last_platform' = pf /\ Posted(Head(pending), PostOn(pf, Head(pending)))
  /\ UNCHANGED <<diff_content, diffs, llm_calls, analysis_results, backend, patch,
                 line_number, position, analysis_text, valid_comments, payload,
                 extract, walk, consumed>>

\* process_pull_request returns and webhook() answers
Finish ==
  /\ pc = "post" /\ pending = <<>>
  /\ response' = ResponseFor(None)
  /\ pc' = "done"
  /\ UNCHANGED <<diff_content, diffs, llm_calls, analysis_results, backend, raised,
                 patch, line_number, position, analysis_text, valid_comments,
                 payload, pending, last_platform, attempts, review_comments,
                 issue_comments,
                 extract, walk, consumed>>

Next == Webhook \/ ConfigError \/ FetchError \/ FetchDiffs \/ Analyze \/ Post \/ Finish

\* one webhook delivery, from its arrival to its response
Spec == Init /\ [][Next]_vars

---------------------------------------------------------------------------
(* The parser and the orchestrator on every diff text of the bounds.       *)

InitReview ==
  \E text \in FreeDiffs \cup FileDiffs \cup {ExampleDiff} :
    Start("fetched", text, <<>>, 0, <<>>)

ParseDiff ==
  /\ pc = "fetched"
  /\ diffs' = ParseDiffContent(diff_content)
  /\ pc' = "parsed"
  /\ UNCHANGED <<diff_content, llm_calls, analysis_results, backend, raised, patch,
                 line_number, position, analysis_text, valid_comments, payload,
                 response, pending, last_platform, attempts, review_comments,
                 issue_comments,
                 extract, walk, consumed>>

Reviewed(r) ==
  /\ llm_calls' = r.calls
  /\ analysis_results' = r.results
  /\ raised' = r.exc

AnalyzeParsed ==
  /\ pc = "parsed"
  /\ \E llm \in [DictKeys(diffs) -> LLMOutcomes] :
       backend' = llm /\ Reviewed(AnalyzeDiffs(diffs, llm))
  /\ pc' = "analyzed"
  /\ UNCHANGED <<diff_content, diffs, patch, line_number, position, analysis_text,
                 valid_comments, payload, response, pending, last_platform,
                 attempts, review_comments, issue_comments,
                 extract, walk, consumed>>

NextReview == ParseDiff \/ AnalyzeParsed

SpecReview == InitReview /\ [][NextReview]_vars

---------------------------------------------------------------------------
(* The position walk on every patch text and target of the bounds.         *)

InitPosition ==
  \E patch_text \in FreePatches, target \in 0..MaxTarget :
    Start("walk", <<>>, patch_text, target, <<>>)

\* _get_position_in_diff for a pull request whose one file is f.py
Walk ==
  /\ pc = "walk"
  /\ position' = GetPositionInDiff(<<[filename |-> "f.py", patch |-> patch]>>,
                                   "f.py", line_number)
  /\ pc' = "walked"
  /\ UNCHANGED <<diff_content, diffs, llm_calls, analysis_results, backend, raised,
                 patch, line_number, analysis_text, valid_comments, payload,
                 response, pending, last_platform, attempts, review_comments,
                 issue_comments,
                 extract, walk, consumed>>

NextPosition == Walk

SpecPosition == InitPosition /\ [][NextPosition]_vars

---------------------------------------------------------------------------
(* The response parser on every LLM response of the bounds.                *)

InitResponse ==
  \E llm_text \in FreeResponses \cup {ExampleResponse, TwoComments} :
    Start("answered", <<>>, <<>>, 0, llm_text)

ParseResponse ==
  /\ pc = "answered"
  /\ valid_comments' = ParseAnalysisResponse(analysis_text)
  /\ pc' = "decoded"
  /\ UNCHANGED <<diff_content, diffs, llm_calls, analysis_results, backend, raised,
                 patch, line_number, position, analysis_text, payload, response,
                 pending, last_platform, attempts, review_comments, issue_comments,
                 extract, walk, consumed>>

NextResponse == ParseResponse

SpecResponse == InitResponse /\ [][NextResponse]_vars

---------------------------------------------------------------------------
(* The two loops over the lines of one patch text, line by line: the       *)
(* loop of _extract_line_changes and the loop of _get_position_in_diff     *)
(* consume the same lines, the walk until it returns.                      *)

\* the lines such a patch text is made of
LoopLines ==
  { <<Hunk32>>, <<ShortHunk>>, <<GitHeader("f.py")>>,
    <<Atom("+")>>, <<Atom("-")>>, <<Atom(" ")>>, <<Atom("\\")>> }

\* every such patch text of 1 to MaxPatchLines lines
LoopPatches == { Join(ls) : ls \in SeqsUpTo(LoopLines, MaxPatchLines) }

InitLines ==
  \E patch_text \in LoopPatches, target \in 0..MaxTarget :
    Start("lines", <<>>, patch_text, target, <<>>)

\* one iteration of the walk, which a `return position` has ended for good
WalkLine(st, patch_line, target) ==
  IF st.returned THEN st ELSE WalkStep(st, patch_line, target)

\* both loops consume the next line of the patch
NextLine ==
  /\ pc = "lines" /\ consumed < Len(Split(patch))
  /\ extract' = ExtractStep(extract, Split(patch)[consumed + 1])
  /\ walk' = WalkLine(walk, Split(patch)[consumed + 1], line_number)
  /\ consumed' = consumed + 1
  /\ UNCHANGED <<pc, diff_content, diffs, llm_calls, analysis_results, backend,
                 raised, patch, line_number, position, analysis_text,
                 valid_comments, payload, response, pending, last_platform,
                 attempts, review_comments, issue_comments>>

\* the lines are exhausted: _get_position_in_diff returns its position counter
EndOfPatch ==
  /\ pc = "lines" /\ consumed = Len(Split(patch))
  /\ position' = [exc |-> None, ret |-> walk.position]
  /\ pc' = "returned"
  /\ UNCHANGED <<diff_content, diffs, llm_calls, analysis_results, backend, raised,
                 patch, line_number, analysis_text, valid_comments, payload,
                 response, pending, last_platform, attempts, review_comments,
                 issue_comments, extract, walk, consumed>>

NextLines == NextLine \/ EndOfPatch

SpecLines == InitLines /\ [][NextLines]_vars

---------------------------------------------------------------------------
(* Properties.                                                             *)

Min(S) == CHOOSE x \in S : \A y \in S : x <= y
Max(S) == CHOOSE x \in S : \A y \in S : x >= y

LastAttempt == attempts[Len(attempts)]

\* the platform did not accept the inline comment of the latest post_comment
InlineNotAccepted ==
  ~last_platform.pull_ok \/ ~last_platform.listed \/ ~last_platform.inline_ok

\* C1: whenever the platform does not accept the inline comment (the file not
\* being among the pull request's files included) and accepts an issue
\* comment, post_comment creates exactly one issue comment
\* '**<filePath>:<line>**', blank line, content, and returns True.
C1_FallbackOnEveryInlineFailure ==
  (attempts # <<>> /\ InlineNotAccepted /\ last_platform.fallback_ok)
    => /\ LastAttempt.exc = None
       /\ LastAttempt.ret = TRUE
       /\ LastAttempt.review = <<>>
       /\ LastAttempt.issue =
            << <<"**", LastAttempt.file_path, ":", ToString(LastAttempt.line), "**",
                 "\n", "\n", LastAttempt.content>> >>

\* process_pull_request got as far as posting comments
PostingReached == pc = "post" \/ (pc = "done" /\ (attempts # <<>> \/ response = Success))

\* C2: once the webhook has answered a delivery whose analysis produced
\* comments, post_comment was attempted exactly once for every comment, in
\* order, every failure was a False return value and never an exception, and
\* the response is not an error.
C2_EveryCommentAttempted ==
  (pc = "done" /\ PostingReached)
    => /\ Len(attempts) = Len(CommentsOf(analysis_results))
       /\ \A i \in 1..Len(attempts) :
            /\ attempts[i].exc = None
            /\ attempts[i].file_path = CommentsOf(analysis_results)[i].file_path
            /\ attempts[i].line = CommentsOf(analysis_results)[i].comment.line
       /\ response = Success

\* [Context(old=1,new=1), Addition(new=2), Deletion(old=2)]
ExampleChanges ==
  << [type |-> "context", old_line_num |-> 1, new_line_num |-> 1, content |-> <<>>],
     [type |-> "addition", line_num |-> 2, content |-> <<>>],
     [type |-> "deletion", line_num |-> 2, content |-> <<>>] >>

\* C3: the example diff text, which ends with a line break, parses to exactly
\* one file entry f.py whose change list is exactly
\* [Context(old=1,new=1), Addition(new=2), Deletion(old=2)].
C3_ExampleParsesToThreeChanges ==
  (pc = "parsed" /\ diff_content = ExampleDiff)
    => /\ Len(diffs) = 1
       /\ diffs[1].key = "f.py"
       /\ diffs[1].value.changes = ExampleChanges

\* a line that can stand before the first hunk header of a file's raw
\* content: 'diff --git ...', 'index ...', '--- a/...', '+++ b/...'
IsHeaderLine(line) ==
  \/ StartsWith(line, "diff --git") \/ StartsWith(line, " ")
  \/ StartsWith(line, "+") \/ StartsWith(line, "-")

\* the case of C4: header lines, then the first hunk header at line h, then
\* an addition or context line, the target being the header's new start
FirstLineOfFirstHunk(lines, h, target) ==
  /\ h >= 2 /\ h < Len(lines)
  /\ \A i \in 1..(h - 1) : IsHeaderLine(lines[i])
  /\ StartsWith(lines[h], "@@") /\ lines[h][1].n >= 3 /\ lines[h][1].w >= 1
  /\ StartsWith(lines[h + 1], "+") \/ StartsWith(lines[h + 1], " ")
  /\ target = lines[h][1].w

\* C4: for raw content with header lines before its first hunk header and the
\* target equal to the new start of that hunk, whose first line is an addition
\* or a context line, the walk returns the 1-based index of that line.
C4_FirstHunkLinePosition ==
  pc = "walked" =>
    \A h \in 1..Len(Split(patch)) :
      FirstLineOfFirstHunk(Split(patch), h, line_number)
        => position = [exc |-> None, ret |-> h + 1]

\* the new-file line numbers of the lines of a patch, as the parser numbers them
NewLineNumbers(lines) ==
  LET changes == ExtractLineChanges(lines) IN
  { changes[i].line_num : i \in { j \in 1..Len(changes) : changes[j].type = "addition" } }
  \cup
  { changes[i].new_line_num : i \in { j \in 1..Len(changes) : changes[j].type = "context" } }

\* a patch as the platform gives it for a file: it starts with a hunk header,
\* and a no-newline marker either is its last line or follows the deleted last
\* line of the old file and is followed by the added last lines of the new one
IsPlatformPatch(lines) ==
  /\ StartsWith(lines[1], "@@")
  /\ \A i \in 1..(Len(lines) - 1) :
       StartsWith(lines[i], "\\")
         => i > 1 /\ StartsWith(lines[i - 1], "-") /\ StartsWith(lines[i + 1], "+")

\* C5: when the file is in the pull request and no line of its patch has the
\* target as its new-file line number, the walk does not fail and returns the
\* number of lines of the patch text.
C5_NotFoundReturnsLastPosition ==
  (/\ pc = "walked"
   /\ IsPlatformPatch(Split(patch))
   /\ line_number \notin NewLineNumbers(Split(patch)))
    => position = [exc |-> None, ret |-> Len(Split(patch))]

\* a walk past two numbered lines of a patch, neither of them the target
C5_Witness ==
  /\ pc = "walked"
  /\ IsPlatformPatch(Split(patch))
  /\ line_number \notin NewLineNumbers(Split(patch))
  /\ Cardinality(NewLineNumbers(Split(patch))) >= 2
  /\ position = [exc |-> None, ret |-> Len(Split(patch))]
  /\ position.ret >= 3

HasAddition(changes) == \E i \in 1..Len(changes) : changes[i].type = "addition"

\* the requests sent for the file of a path
CallsFor(path) == { j \in 1..Len(llm_calls) : llm_calls[j].file_path = path }

\* C6: analyze_diffs never raises; every file of diffs with an addition is
\* dispatched once whatever the backend did with the other files; a file
\* whose call raised has no comments in the result, and a file whose call
\* answered has exactly the comments of its answer.
C6_FailureIsolatedPerFile ==
  pc = "analyzed" =>
    /\ raised = None
    /\ \A i \in 1..Len(diffs) :
         HasAddition(diffs[i].value.changes) =>
           /\ Cardinality(CallsFor(diffs[i].key)) = 1
           /\ IF /\ backend[diffs[i].key].exc = None
                 /\ ParseAnalysisResponse(backend[diffs[i].key].text) # <<>>
              THEN /\ diffs[i].key \in DictKeys(analysis_results)
                   /\ DictGet(analysis_results, diffs[i].key)
                        = ParseAnalysisResponse(backend[diffs[i].key].text)
              ELSE diffs[i].key \notin DictKeys(analysis_results)

\* the backend raised for the first file and the second file has its comments
C6_Witness ==
  /\ pc = "analyzed"
  /\ Len(diffs) >= 2
  /\ HasAddition(diffs[1].value.changes) /\ HasAddition(diffs[2].value.changes)
  /\ backend[diffs[1].key].exc # None
  /\ Len(llm_calls) = 2
  /\ DictKeys(analysis_results) = {diffs[2].key}

\* the comments the claim C7 describes for a response text: the span from the
\* first "[" to the last "]", decoded, without the elements that lack a field
DescribedComments(text) ==
  LET opens  == { i \in 1..Len(text) : text[i].t = "[" }
      closes == { i \in 1..Len(text) : text[i].t = "]" }
      Both(c) == c.t = "obj" /\ {"line", "content"} \subseteq c.keys
  IN IF opens = {} \/ closes = {} THEN <<>>
     ELSE IF Max(closes) < Min(opens) THEN <<>>
     ELSE LET decoded == JsonLoads(SubSeq(text, Min(opens), Max(closes))) IN
          IF decoded.exc # None THEN <<>>
          ELSE SelectSeq(decoded.val, Both)

\* C7: _parse_analysis_response returns the records with both fields of the
\* span from the first "[" to the last "]", in order, and the empty list when
\* there is no such span or it does not decode; the example response yields
\* exactly one comment, with line = 2.
C7_ResponseParsing ==
  pc = "decoded" =>
    /\ valid_comments = DescribedComments(analysis_text)
    /\ analysis_text = ExampleResponse =>
         Len(valid_comments) = 1 /\ valid_comments[1].line = 2
    /\ analysis_text = TwoComments =>
         Len(valid_comments) = 2 /\ valid_comments[1].line = 1
                                 /\ valid_comments[2].line = 3

\* a response whose array holds a record without 'content' and a full record
C7_Witness ==
  /\ pc = "decoded"
  /\ Len(analysis_text) = 5
  /\ analysis_text[2].t = "obj" /\ analysis_text[2].keys = {"line"}
  /\ Len(valid_comments) = 1
  /\ valid_comments[1].line = 2

\* the lines of a text that start a file's section
HeaderLines(lines) == { i \in 1..Len(lines) : StartsWith(lines[i], "diff --git") }

\* the last line of the section that starts at line h
SectionLast(lines, h) ==
  IF \E j \in HeaderLines(lines) : j > h
  THEN Min({ j \in HeaderLines(lines) : j > h }) - 1
  ELSE Len(lines)

\* every file header is 'diff --git a/<old> b/<new>' and no path is named twice
GitHeaders(lines) ==
  \A i \in HeaderLines(lines) :
    /\ lines[i][1].n >= 4
    /\ \A j \in HeaderLines(lines) :
         (i # j /\ lines[i][1].s # "") => lines[i][1].s # lines[j][1].s

SectionHasHunk(lines, h) ==
  \E i \in h..SectionLast(lines, h) : StartsWith(lines[i], "@@")

SectionHasAddition(lines, h) ==
  \E i, j \in h..SectionLast(lines, h) :
    i < j /\ StartsWith(lines[i], "@@") /\ StartsWith(lines[j], "+")

SectionText(lines, h) == Join(SubSeq(lines, h, SectionLast(lines, h)))

\* C8: a file whose diff has no hunk header is in the parser's result with an
\* empty change list; no request is sent for a file without an addition;
\* exactly one request, holding the file's full raw diff text, is sent for a
\* file with an addition.
C8_OnlyFilesWithAdditionsDispatched ==
  (pc = "analyzed" /\ GitHeaders(Split(diff_content))) =>
    \A h \in HeaderLines(Split(diff_content)) :
      /\ ~SectionHasHunk(Split(diff_content), h) =>
           \E i \in 1..Len(diffs) :
             /\ diffs[i].value.content = SectionText(Split(diff_content), h)
             /\ diffs[i].value.changes = <<>>
      /\ Cardinality({ j \in 1..Len(llm_calls) :
                         llm_calls[j].full_diff = SectionText(Split(diff_content), h) })
           = IF SectionHasAddition(Split(diff_content), h) THEN 1 ELSE 0

\* the payload asks for processing
AsksProcessing == payload.action \in {"opened", "synchronize"}

\* C9: processing starts only for the actions 'opened' and 'synchronize';
\* any other payload fetches no diff, calls no LLM, posts no comment and is
\* answered 'ignored' with 200; 'success' with 200 answers only a processing
\* that completed without an exception, and a processing that raised is
\* answered 'error' with 500.
C9_WebhookDispatch ==
  /\ pc \in {"process", "analyze", "post"} => AsksProcessing /\ response = NoResponse
  /\ (pc # "idle" /\ ~AsksProcessing) =>
       /\ pc = "done" /\ response = [status |-> "ignored", code |-> 200]
       /\ diff_content = <<>> /\ diffs = <<>> /\ llm_calls = <<>>
       /\ attempts = <<>> /\ review_comments = <<>> /\ issue_comments = <<>>
  /\ pc = "done" =>
       /\ response \in { [status |-> "success", code |-> 200],
                         [status |-> "ignored", code |-> 200],
                         [status |-> "error", code |-> 500] }
       /\ response.status = "success" =>
            /\ AsksProcessing /\ raised = None /\ pending = <<>>
            /\ Len(attempts) = Len(CommentsOf(analysis_results))
       /\ raised # None <=> response.status = "error"

\* a delivery answered 'success' after its comments were posted
C9_Witness ==
  /\ pc = "done"
  /\ response = [status |-> "success", code |-> 200]
  /\ Len(attempts) >= 2

\* the places of a text at which a line 'diff --git ...' starts
HeaderAtoms(text) ==
  { p \in 1..Len(text) : text[p].k = "diff --git" /\ (p = 1 \/ text[p - 1] = NL) }

\* the last place of the slice of the file that starts at place p: the end of
\* the text, or the place before the line break that ends the file's last line
SliceLast(text, p) ==
  IF \E q \in HeaderAtoms(text) : q > p
  THEN Min({ q \in HeaderAtoms(text) : q > p }) - 2
  ELSE Len(text)

\* C10: the raw content stored for each file is the slice of the input text
\* from the file's header line up to the next file header or the end of the
\* input, and every file of the input has its entry.
C10_RawContentIsInputSlice ==
  (pc = "parsed" /\ GitHeaders(Split(diff_content))) =>
    /\ Len(diffs) = Cardinality(HeaderAtoms(diff_content))
    /\ \A p \in HeaderAtoms(diff_content) :
         \E i \in 1..Len(diffs) :
           diffs[i].value.content = SubSeq(diff_content, p, SliceLast(diff_content, p))

\* the entries _extract_line_changes appends for line i of lines
EntriesOf(lines, i) ==
  LET before == ExtractLoop(ExtractStart, SubSeq(lines, 1, i - 1)).changes
      after  == ExtractLoop(ExtractStart, SubSeq(lines, 1, i)).changes
  IN SubSeq(after, Len(before) + 1, Len(after))

IsNumberedNew(change) == change.type \in {"addition", "context"}

\* the new-file line number of an Addition or Context entry
NewNumber(change) ==
  IF change.type = "addition" THEN change.line_num ELSE change.new_line_num

\* a well-formed patch of one file: header lines, then hunks whose headers
\* have their numbers; every no-newline marker follows a line of a hunk; no
\* new-file line number is given to two lines
WellFormedPatch(lines) ==
  /\ \E h \in 1..Len(lines) : StartsWith(lines[h], "@@")
  /\ \A h \in 1..Len(lines) : StartsWith(lines[h], "@@") => lines[h][1].n >= 3
  /\ \A i \in 1..Len(lines) :
       StartsWith(lines[i], "\\")
         => i > 1 /\ (\/ StartsWith(lines[i - 1], "+")
                      \/ StartsWith(lines[i - 1], "-")
                      \/ StartsWith(lines[i - 1], " "))
                  /\ FirstHunk(lines, 1) < i
  /\ LET numbered == SelectSeq(ExtractLineChanges(lines), IsNumberedNew) IN
     \A i, j \in 1..Len(numbered) :
       i # j => NewNumber(numbered[i]) # NewNumber(numbered[j])

\* C11: on a well-formed patch of one file, when the parser gives the line
\* just consumed an Addition or Context entry whose new-file line number is
\* the target, the walk returns at that very line, with the 1-based index of
\* the line as its position (so it has not returned at an earlier line: a
\* header line, a hunk header, a deletion or a no-newline marker).
C11_WalkAgreesWithParser ==
  (consumed >= 1 /\ WellFormedPatch(Split(patch))) =>
    \A k \in 1..Len(EntriesOf(Split(patch), consumed)) :
      (/\ IsNumberedNew(EntriesOf(Split(patch), consumed)[k])
       /\ NewNumber(EntriesOf(Split(patch), consumed)[k]) = line_number)
        => walk.returned /\ walk.position = consumed

\* the lines the two loops have consumed
Consumed == SubSeq(Split(patch), 1, consumed)

\* the hunk header that line i of lines belongs to, 0 when line i stands
\* before the first hunk header
HunkOf(lines, i) ==
  IF \E h \in 1..(i - 1) : StartsWith(lines[h], "@@")
  THEN Max({ h \in 1..(i - 1) : StartsWith(lines[h], "@@") })
  ELSE 0

\* the lines of hunks that are neither hunk headers nor no-newline markers
ChangeLines(lines) ==
  { i \in 1..Len(lines) : /\ HunkOf(lines, i) > 0
                          /\ ~StartsWith(lines[i], "@@")
                          /\ ~StartsWith(lines[i], "\\") }

\* how many lines of the new file, resp. of the old file, stand between the
\* hunk header h and line i
NewLinesBetween(lines, h, i) ==
  Cardinality({ j \in ChangeLines(lines) : h < j /\ j < i /\ ~StartsWith(lines[j], "-") })

OldLinesBetween(lines, h, i) ==
  Cardinality({ j \in ChangeLines(lines) : h < j /\ j < i /\ ~StartsWith(lines[j], "+") })

\* the entry C12 describes for line i of the hunk whose header is line h
DescribedChange(lines, h, i) ==
  IF StartsWith(lines[i], "+")
  THEN [type |-> "addition", content |-> DropFirst(lines[i]),
        line_num |-> lines[h][1].w + NewLinesBetween(lines, h, i)]
  ELSE IF StartsWith(lines[i], "-")
  THEN [type |-> "deletion", content |-> DropFirst(lines[i]),
        line_num |-> lines[h][1].o + OldLinesBetween(lines, h, i)]
  ELSE [type |-> "context", content |-> DropFirst(lines[i]),
        old_line_num |-> lines[h][1].o + OldLinesBetween(lines, h, i),
        new_line_num |-> lines[h][1].w + NewLinesBetween(lines, h, i)]

\* C12: the change list has one entry per line of a hunk, in the order of the
\* lines; within a hunk whose header has its numbers, the new-file numbers of
\* the Addition and Context entries are newStart, newStart+1, ... and the
\* old-file numbers of the Deletion and Context entries are oldStart,
\* oldStart+1, ...: a Deletion does not advance the new-file number and an
\* Addition does not advance the old-file number.
C12_NumbersContiguousPerHunk ==
  /\ Len(extract.changes) = Cardinality(ChangeLines(Consumed))
  /\ \A i \in ChangeLines(Consumed) :
       Consumed[HunkOf(Consumed, i)][1].n >= 3 =>
         extract.changes[Cardinality({ j \in ChangeLines(Consumed) : j <= i })]
           = DescribedChange(Consumed, HunkOf(Consumed, i), i)

\* a hunk consumed whose deletion, addition and context line are numbered
C12_Witness ==
  /\ consumed = 4
  /\ Len(extract.changes) = 3
  /\ extract.changes[1] = [type |-> "deletion", content |-> <<>>, line_num |-> 3]
  /\ extract.changes[2] = [type |-> "addition", content |-> <<>>, line_num |-> 2]
  /\ extract.changes[3] = [type |-> "context", content |-> <<>>,
                           old_line_num |-> 4, new_line_num |-> 3]

\* the step consumes a line that starts with the no-newline marker '\'
MarkerConsumed ==
  /\ pc = "lines" /\ consumed < Len(Split(patch))
  /\ consumed' = consumed + 1
  /\ StartsWith(Split(patch)[consumed + 1], "\\")

\* C13: consuming a line that starts with the no-newline marker appends no
\* entry to the change list and leaves the old-file and new-file counters of
\* _extract_line_changes and the current-line counter of the walk as they
\* were, whatever line precedes the marker.
C13_MarkerAdvancesNothing ==
  [][MarkerConsumed =>
       /\ extract'.changes = extract.changes
       /\ extract'.old_line_num = extract.old_line_num
       /\ extract'.new_line_num = extract.new_line_num
       /\ walk'.current_line = walk.current_line]_vars

\* a marker consumed inside a hunk, after a numbered line, by both loops
C13_Witness ==
  /\ consumed >= 3
  /\ StartsWith(Split(patch)[consumed], "\\")
  /\ StartsWith(Split(patch)[consumed - 1], "+")
  /\ extract.in_hunk /\ extract.changes # <<>>
  /\ ~walk.returned /\ walk.position = consumed
  /\ walk.current_line = extract.new_line_num

\* the line consumed last is a hunk header with fewer than 3 tokens
ShortHunkConsumed ==
  /\ consumed >= 1
  /\ StartsWith(Split(patch)[consumed], "@@")
  /\ Split(patch)[consumed][1].n < 3

\* C14: a hunk header with fewer than 3 tokens does not abort the parse; it
\* opens a hunk whose counters are zero - the old-file and new-file counters
\* of _extract_line_changes and the current-line counter of the walk carry no
\* value from an earlier hunk - and no entry is lost or added by it.
C14_ShortHunkHeaderLeavesCountersZero ==
  ShortHunkConsumed =>
    /\ raised = None /\ pc \in {"lines", "returned"}
    /\ extract.in_hunk
    /\ Len(extract.changes) = Cardinality(ChangeLines(Consumed))
    /\ extract.old_line_num = 0 /\ extract.new_line_num = 0
    /\ ~walk.returned => walk.current_line = 0

====
